---------------------------- MODULE Spec2Model ----------------------------
(***************************************************************************)
(* Model of the certificate compositor of backend/services.py              *)
(* (CertificateService) and of the text layout routine it uses.            *)
(*                                                                         *)
(* Pixel positions are kept in hundredths of a pixel (Scale = 100): the    *)
(* padding of _calculate_text_position is a percentage of the rectangle    *)
(* and so is fractional, while measured text sizes and rectangle corners   *)
(* are whole pixels.  An Optional[int] of the Placeholder model is a       *)
(* sequence: <<>> is None and <<v>> is the integer v.                      *)
(***************************************************************************)
EXTENDS Integers, Sequences, FiniteSets, TLC

VARIABLES
    call,             \* arguments of the call of a pure routine under study
    ret,              \* its return value, NoRet before the call returns
    drive_service,    \* CertificateService.drive_service is set (authenticated)
    templates,        \* db.templates: template_id -> template document
    student_details,  \* db.student_details: sequence of stored documents
    unique_index,     \* db.student_details has a unique index on certificate_id
    certificates,     \* db.certificates: sequence of stored documents
    verification_logs, \* db.verification_logs: sequence of stored documents
    last,             \* outcome and ordered effects of the last handler run
    tasks             \* generate_certificate calls in flight: their local variables

vars ==
    <<call, ret, drive_service, templates, student_details, unique_index, certificates,
      verification_logs, last, tasks>>

layoutVars == <<call, ret>>
storeVars == <<unique_index, certificates, verification_logs>>
serviceVars == <<drive_service, templates, student_details, storeVars, last>>

-----------------------------------------------------------------------------
(* Bounds of the model                                                     *)

MaxTwK == 2        \* text widths 0, 15, .. 15*MaxTwK besides the listed ones
MaxThK == 2        \* text heights 10, .. 10*MaxThK besides the listed ones
MaxCerts == 1      \* documents kept in student_details by Spec
MaxStored == 2     \* documents kept in student_details by StoreSpec
MaxLogs == 1       \* documents kept in verification_logs


-----------------------------------------------------------------------------
(* Arithmetic helpers                                                      *)

Scale == 100

Max(a, b) == IF a >= b THEN a ELSE b
Min(a, b) == IF a <= b THEN a ELSE b

-----------------------------------------------------------------------------
(* Text layout: CertificateService._calculate_text_position                *)

\* draw.textbbox((0, 0), text, font): the measured box, or a failure that
\* the routine replaces by the estimate len(text) * 10 by 20.
text_size(text, bbox) ==
    IF bbox.ok
    THEN [w |-> bbox.x2 - bbox.x1, h |-> bbox.y2 - bbox.y1]
    ELSE [w |-> Len(text) * 10, h |-> 20]

\* variant: the mobile profile is given the desktop numbers
padding_x_mobile_as_desktop(device_type, rect_width) ==
    IF device_type = "mobile" \/ device_type = "desktop"
    THEN Max(5 * Scale, rect_width * 5)
    ELSE Max(6 * Scale, rect_width * 6)

\* variant: min in place of max in the desktop profile
padding_x_desktop_min(device_type, rect_width) ==
    IF device_type = "mobile"
    THEN Max(6 * Scale, Min(rect_width * 8, rect_width * 12))
    ELSE IF device_type = "desktop"
    THEN Min(5 * Scale, rect_width * 5)
    ELSE Max(6 * Scale, rect_width * 6)

\* padding_x, in hundredths of a pixel
padding_x(device_type, rect_width) ==
    IF device_type = "mobile"
    THEN Max(6 * Scale, Min(rect_width * 8, rect_width * 12))
    ELSE IF device_type = "desktop"
    THEN Max(5 * Scale, rect_width * 5)
    ELSE Max(6 * Scale, rect_width * 6)

\* padding_y, in hundredths of a pixel
padding_y(device_type, rect_height) ==
    IF device_type = "mobile"
    THEN Max(4 * Scale, Min(rect_height * 8, rect_height * 15))
    ELSE IF device_type = "desktop"
    THEN Max(5 * Scale, rect_height * 5)
    ELSE Max(4 * Scale, rect_height * 8)

\* variant: an unrecognised alignment is taken as left
align_x_unknown_as_left(text_align, x1, x2, text_width, pad) ==
    IF text_align = "center" THEN (x1 + ((x2 - x1) - text_width) \div 2) * Scale
    ELSE IF text_align = "right" THEN x2 * Scale - text_width * Scale - pad
    ELSE x1 * Scale + pad

\* first pass: horizontal alignment
align_x(text_align, x1, x2, text_width, pad) ==
    IF text_align = "left" THEN x1 * Scale + pad
    ELSE IF text_align = "right" THEN x2 * Scale - text_width * Scale - pad
    ELSE (x1 + ((x2 - x1) - text_width) \div 2) * Scale

\* first pass: vertical alignment
align_y(vertical_align, y1, y2, text_height, pad) ==
    IF vertical_align = "top" THEN y1 * Scale + pad
    ELSE IF vertical_align = "bottom" THEN y2 * Scale - text_height * Scale - pad
    ELSE (y1 + ((y2 - y1) - text_height) \div 2) * Scale

\* variant: min and max exchanged
clamp_swapped(v, c1, c2, size, pad) ==
    Min(c1 * Scale + pad, Max(v, c2 * Scale - size * Scale - pad))

\* variant: min(hi, max(v, lo)), the upper bound applied last
clamp_upper_last(v, c1, c2, size, pad) ==
    Min(c2 * Scale - size * Scale - pad, Max(v, c1 * Scale + pad))

\* max(lo, min(v, hi)) with lo = x1 + padding and hi = x2 - size - padding
clamp(v, c1, c2, size, pad) ==
    Max(c1 * Scale + pad, Min(v, c2 * Scale - size * Scale - pad))

\* variant: the centre is rounded up instead of down
refine_x_round_up(text_align, v, x1, x2, text_width, pad) ==
    IF text_align = "center" THEN (x1 + ((x2 - x1) - text_width + 1) \div 2) * Scale
    ELSE IF text_align = "right" THEN x2 * Scale - text_width * Scale - pad
    ELSE IF text_align = "left" THEN x1 * Scale + pad
    ELSE v

\* variant: the origin, not the text box, is put at the middle of the rectangle
refine_x_origin_at_middle(text_align, v, x1, x2, text_width, pad) ==
    IF text_align = "center" THEN (x1 + (x2 - x1) \div 2) * Scale
    ELSE IF text_align = "right" THEN x2 * Scale - text_width * Scale - pad
    ELSE IF text_align = "left" THEN x1 * Scale + pad
    ELSE v

\* "additional alignment refinement": an unrecognised alignment keeps v
refine_x(text_align, v, x1, x2, text_width, pad) ==
    IF text_align = "center" THEN (x1 + ((x2 - x1) - text_width) \div 2) * Scale
    ELSE IF text_align = "right" THEN x2 * Scale - text_width * Scale - pad
    ELSE IF text_align = "left" THEN x1 * Scale + pad
    ELSE v

\* variant: top is re-asserted with the centre formula
refine_y_top_recentred(vertical_align, v, y1, y2, text_height, pad) ==
    IF vertical_align = "center" \/ vertical_align = "top"
    THEN (y1 + ((y2 - y1) - text_height) \div 2) * Scale
    ELSE IF vertical_align = "bottom" THEN y2 * Scale - text_height * Scale - pad
    ELSE v

refine_y(vertical_align, v, y1, y2, text_height, pad) ==
    IF vertical_align = "center" THEN (y1 + ((y2 - y1) - text_height) \div 2) * Scale
    ELSE IF vertical_align = "bottom" THEN y2 * Scale - text_height * Scale - pad
    ELSE IF vertical_align = "top" THEN y1 * Scale + pad
    ELSE v

\* variant: without the final validation of lines 218-219
final_x_without_last_clamp(text_align, x1, x2, text_width, pad) ==
    refine_x(text_align,
             clamp(align_x(text_align, x1, x2, text_width, pad), x1, x2, text_width, pad),
             x1, x2, text_width, pad)

final_x(text_align, x1, x2, text_width, pad) ==
    clamp(refine_x(text_align,
                   clamp(align_x(text_align, x1, x2, text_width, pad),
                         x1, x2, text_width, pad),
                   x1, x2, text_width, pad),
          x1, x2, text_width, pad)

final_y(vertical_align, y1, y2, text_height, pad) ==
    clamp(refine_y(vertical_align,
                   clamp(align_y(vertical_align, y1, y2, text_height, pad),
                         y1, y2, text_height, pad),
                   y1, y2, text_height, pad),
          y1, y2, text_height, pad)

\* variant: text width and text height exchanged
calculate_text_position_swapped(text, bbox, x1, y1, x2, y2, text_align, vertical_align, device_type) ==
    LET size == text_size(text, bbox)
        px   == padding_x(device_type, x2 - x1)
        py   == padding_y(device_type, y2 - y1)
    IN  [x |-> final_x(text_align, x1, x2, size.h, px),
         y |-> final_y(vertical_align, y1, y2, size.w, py)]

calculate_text_position(text, bbox, x1, y1, x2, y2, text_align, vertical_align, device_type) ==
    LET size == text_size(text, bbox)
        px   == padding_x(device_type, x2 - x1)
        py   == padding_y(device_type, y2 - y1)
    IN  [x |-> final_x(text_align, x1, x2, size.w, px),
         y |-> final_y(vertical_align, y1, y2, size.h, py)]

-----------------------------------------------------------------------------
(* Inputs of the layout routine                                            *)

Origins == {<<600, 600>>}
RectWidths == {-10, 0, 50, 100, 105, 800}
RectHeights == {0, 40, 62, 63, 100, 105}
TextWidths == {87, 94, 720, 900} \cup {15 * k : k \in 0..MaxTwK}
TextHeights == {33, 90, 94} \cup {10 * k : k \in 1..MaxThK}
TextAligns == {"left", "center", "right", "justify"}
VerticalAligns == {"top", "center", "bottom", "middle"}
DeviceTypes == {"desktop", "mobile", "tablet"}
Texts == {"", "2025-07-10", "Alice Johnson"}

\* textbbox results: (left, top, right, bottom), or a raised exception
MeasuredBoxes ==
    {[ok |-> TRUE, x1 |-> 1, y1 |-> 3, x2 |-> 1 + w, y2 |-> 3 + h] :
        w \in TextWidths, h \in TextHeights}
FailedBox == [ok |-> FALSE, x1 |-> 0, y1 |-> 0, x2 |-> 0, y2 |-> 0]

Measurements ==
    {[text |-> "Alice Johnson", bbox |-> b] : b \in MeasuredBoxes}
    \cup {[text |-> t, bbox |-> FailedBox] : t \in Texts}

LayoutCalls ==
    {[text |-> m.text, bbox |-> m.bbox,
      x1 |-> o[1], y1 |-> o[2], x2 |-> o[1] + rw, y2 |-> o[2] + rh,
      text_align |-> ta, vertical_align |-> va, device_type |-> d] :
        m \in Measurements, o \in Origins, rw \in RectWidths, rh \in RectHeights,
        ta \in TextAligns, va \in VerticalAligns, d \in DeviceTypes}

NoRet == [done |-> FALSE, x |-> 0, y |-> 0]

IdleCall ==
    [text |-> "", bbox |-> FailedBox, x1 |-> 0, y1 |-> 0, x2 |-> 0, y2 |-> 0,
     text_align |-> "center", vertical_align |-> "center", device_type |-> "desktop"]

\* one call of _calculate_text_position, from its arguments to its return
CalculateTextPosition ==
    /\ ~ret.done
    /\ LET p == calculate_text_position(call.text, call.bbox, call.x1, call.y1,
                                        call.x2, call.y2, call.text_align,
                                        call.vertical_align, call.device_type)
       IN  ret' = [done |-> TRUE, x |-> p.x, y |-> p.y]
    /\ UNCHANGED <<call, tasks, serviceVars>>

-----------------------------------------------------------------------------
(* Documents of db.templates: models.Placeholder and the template record   *)

None == <<>>
Some(v) == <<v>>

\* a colour string: whether it starts with '#', and what follows
DefaultColor == [hash |-> TRUE, rest |-> "0b2a4a"]
EmptyColor == [hash |-> FALSE, rest |-> ""]

\* Placeholder(**p).dict(): every field present, the corners possibly None
Placeholder(key, x1, y1, x2, y2, font_size, color, text_align, vertical_align) ==
    [key |-> key, x |-> 400, y |-> 300, font_size |-> font_size, color |-> color,
     x1 |-> x1, y1 |-> y1, x2 |-> x2, y2 |-> y2,
     text_align |-> text_align, vertical_align |-> vertical_align]

\* a placeholder given by its point only, as test_api.py posts them
PointPlaceholder(key, font_size) ==
    Placeholder(key, None, None, None, None, font_size, DefaultColor, "center", "center")

RectPlaceholder(key, x1, y1, x2, y2, font_size, text_align, vertical_align) ==
    Placeholder(key, Some(x1), Some(y1), Some(x2), Some(y2), font_size, DefaultColor,
                text_align, vertical_align)

LegacyPlaceholders ==
    <<PointPlaceholder("student_name", 48), PointPlaceholder("course_name", 36),
      PointPlaceholder("date", 24)>>

RectPlaceholders ==
    <<RectPlaceholder("student_name", 600, 600, 1400, 700, 48, "center", "center"),
      RectPlaceholder("date", 600, 600, 1400, 700, 18, "left", "center"),
      RectPlaceholder("certificate_no", 1400, 1250, 1900, 1300, 16, "right", "bottom"),
      RectPlaceholder("qr_code", 1800, 1300, 1950, 1450, 48, "center", "center")>>

\* x1 and y1 given, x2 and y2 left out
PartialPlaceholders ==
    <<Placeholder("student_name", Some(600), Some(600), None, None, 48, DefaultColor,
                  "center", "center"),
      RectPlaceholder("date", 600, 800, 1400, 900, 18, "left", "center")>>

ZeroAreaPlaceholders ==
    <<RectPlaceholder("student_name", 600, 600, 600, 700, 48, "center", "center"),
      RectPlaceholder("date", 600, 800, 1400, 900, 18, "left", "center")>>

InvertedPlaceholders ==
    <<RectPlaceholder("student_name", 600, 600, 1400, 700, 48, "center", "center"),
      RectPlaceholder("certificate_no", 1900, 1300, 1400, 1250, 16, "left", "top")>>

\* colours that are not hex RGB: no '#', empty, and '#' before a non-hex digit
MalformedColorPlaceholders ==
    <<Placeholder("student_name", Some(600), Some(600), Some(1400), Some(700), 48,
                  [hash |-> FALSE, rest |-> "0b2a4a"], "center", "center"),
      Placeholder("date", Some(600), Some(800), Some(1400), Some(900), 18,
                  EmptyColor, "left", "center"),
      Placeholder("certificate_no", Some(1400), Some(1250), Some(1900), Some(1300), 16,
                  [hash |-> TRUE, rest |-> "0b2a4g"], "right", "bottom")>>

\* a qr_code placeholder given by its point, then one with a rectangle
DuplicateQrPlaceholders ==
    <<PointPlaceholder("qr_code", 48),
      RectPlaceholder("qr_code", 1800, 1300, 1950, 1450, 48, "center", "center")>>

\* a qr_code placeholder with x1 and nothing else
PartialQrPlaceholders ==
    <<Placeholder("qr_code", Some(1800), None, None, None, 48, DefaultColor,
                  "center", "center")>>

\* every role given twice, with placeholders of another key around them
DuplicatePlaceholders ==
    <<RectPlaceholder("course_name", 100, 100, 500, 200, 36, "left", "top"),
      RectPlaceholder("student_name", 600, 600, 1400, 700, 48, "center", "center"),
      RectPlaceholder("student_name", 100, 100, 900, 200, 36, "left", "top"),
      RectPlaceholder("date", 600, 800, 1400, 900, 18, "left", "center"),
      PointPlaceholder("date", 24),
      RectPlaceholder("certificate_no", 1400, 1250, 1900, 1300, 16, "right", "bottom"),
      RectPlaceholder("certificate_no", 100, 1250, 600, 1300, 18, "left", "top"),
      RectPlaceholder("qr_code", 1800, 1200, 1950, 1350, 48, "center", "center"),
      RectPlaceholder("qr_code", 100, 100, 250, 250, 48, "center", "center"),
      PointPlaceholder("course_name", 36)>>

PlaceholderLists ==
    {<<>>, LegacyPlaceholders, RectPlaceholders, PartialPlaceholders,
     ZeroAreaPlaceholders, InvertedPlaceholders, DuplicateQrPlaceholders,
     PartialQrPlaceholders, MalformedColorPlaceholders, DuplicatePlaceholders}

TemplateIds == {"TPL-20261101-0A1B2C"}
UnknownTemplateId == "TPL-20261101-FFFFFF"

\* image_path: a Drive URL ("http") or a path without scheme ("local")
ImagePaths == {"http", "local"}

NoTemplate == [present |-> FALSE, image_path |-> "http", placeholders |-> <<>>]

-----------------------------------------------------------------------------
(* utils.generate_certificate_id                                           *)

DigitChars == <<"0", "1", "2", "3", "4", "5", "6", "7", "8", "9">>

\* a non-negative number as decimal digits, zero padded to the given width
zero_padded(n, width) ==
    LET RECURSIVE digits(_, _)
        digits(m, w) ==
            IF m < 10 /\ w <= 1 THEN DigitChars[m + 1]
            ELSE digits(m \div 10, w - 1) \o DigitChars[(m % 10) + 1]
    IN  digits(n, width)

\* variant: month and day without zero padding
strftime_Ymd_unpadded(now) ==
    zero_padded(now.year, 4) \o zero_padded(now.month, 1) \o zero_padded(now.day, 1)

\* datetime.now().strftime('%Y%m%d')
strftime_Ymd(now) ==
    zero_padded(now.year, 4) \o zero_padded(now.month, 2) \o zero_padded(now.day, 2)

\* string.ascii_uppercase + string.digits
Alphabet ==
    <<"A", "B", "C", "D", "E", "F", "G", "H", "I", "J", "K", "L", "M",
      "N", "O", "P", "Q", "R", "S", "T", "U", "V", "W", "X", "Y", "Z",
      "0", "1", "2", "3", "4", "5", "6", "7", "8", "9">>

\* ''.join(secrets.choice(alphabet) for _ in range(6)): picks are the six
\* positions of the alphabet that secrets.choice returned
join_choices(picks) ==
    LET RECURSIVE join(_)
        join(i) == IF i = 0 THEN "" ELSE join(i - 1) \o Alphabet[picks[i]]
    IN  join(Len(picks))

\* "TBS-" + today's date + "-" + the six characters drawn by secrets.choice
generate_certificate_id(today, random_suffix) ==
    "TBS-" \o today \o "-" \o random_suffix

\* the clock and the random draws of a generate_certificate_id call
Years == {2025, 9999}
Months == {1, 9, 12}
Days == {1, 10, 28}
Picks == {1, 26, 27, 36}
IdCalls ==
    {[now |-> [year |-> y, month |-> m, day |-> d], picks |-> p] :
        y \in Years, m \in Months, d \in Days, p \in [1..6 -> Picks]}

NoId == [done |-> FALSE, id |-> ""]

\* one call of generate_certificate_id, from the clock and the draws to the string
GenerateCertificateId ==
    /\ ~ret.done
    /\ ret' = [done |-> TRUE,
               id |-> generate_certificate_id(strftime_Ymd(call.now),
                                              join_choices(call.picks))]
    /\ UNCHANGED <<call, tasks, serviceVars>>

-----------------------------------------------------------------------------
(* CertificateService.generate_certificate                                 *)

BaseUrl == "https://certificate-tb.onrender.com"
QrSize == 150

\* an exception leaving the handler: the step that raised it, its type and
\* message, and what the handler had done by then
Raise(stage, error, msg, effects) ==
    [ok |-> FALSE, stage |-> stage, error |-> error, msg |-> msg, effects |-> effects,
     result |-> <<>>]

Return(effects, result) ==
    [ok |-> TRUE, stage |-> "", error |-> "", msg |-> "", effects |-> effects,
     result |-> result]

\* variant: the last placeholder with the key
first_placeholder_last_match(placeholders, key) ==
    LET idx == {i \in 1..Len(placeholders) : placeholders[i].key = key}
    IN  IF idx = {} THEN None
        ELSE Some(placeholders[CHOOSE i \in idx : \A j \in idx : i >= j])

\* next((p for p in placeholders if p["key"] == key), None)
first_placeholder(placeholders, key) ==
    LET idx == {i \in 1..Len(placeholders) : placeholders[i].key = key}
    IN  IF idx = {} THEN None
        ELSE Some(placeholders[CHOOSE i \in idx : \A j \in idx : i <= j])

\* placeholder and placeholder.get("x1") is not None
has_rect(ph) == ph # None /\ ph[1].x1 # None

\* variant: tablet is given the mobile multiplier
device_multiplier_tablet_as_mobile(device_type) ==
    IF device_type = "mobile" \/ device_type = "tablet" THEN 120
    ELSE IF device_type = "desktop" THEN 100
    ELSE 105

\* device_multiplier, in percent
device_multiplier(device_type) ==
    IF device_type = "mobile" THEN 120
    ELSE IF device_type = "desktop" THEN 100
    ELSE 105

\* int(base_font_size * device_multiplier)
scaled_font_size(base_font_size, device_type) ==
    (base_font_size * device_multiplier(device_type)) \div 100

\* raw_color if raw_color and raw_color.startswith("#") else text_color
resolve_color(raw_color) ==
    IF raw_color # EmptyColor /\ raw_color.hash THEN raw_color ELSE DefaultColor

\* ImageColor.getrgb on a string that starts with '#': 3, 4, 6 or 8 hex digits
\* give a colour, anything else raises ValueError
HexDigits ==
    {"0", "1", "2", "3", "4", "5", "6", "7", "8", "9", "a", "b", "c", "d", "e", "f",
     "A", "B", "C", "D", "E", "F"}
getrgb_accepts(color) ==
    /\ color.hash
    /\ Len(color.rest) \in {3, 4, 6, 8}
    /\ \A i \in 1..Len(color.rest) : SubSeq(color.rest, i, i) \in HexDigits

\* radius of the white outline pass: range(-2, 3) for the name, range(-1, 2) else
halo(field) == IF field = "student_name" THEN 2 ELSE 1

\* font_large (48) draws the fallback name, font_small (18) the other fields
base_font_size(field) == IF field = "student_name" THEN 48 ELSE 18

\* the "Fallback to default positioning" branches, in hundredths of a pixel
fallback_position(field, img_width, img_height, bbox) ==
    IF field = "student_name"
    THEN IF bbox.ok
         THEN [x |-> (img_width \div 2 - (bbox.x2 - bbox.x1) \div 2) * Scale,
               y |-> (img_height \div 2 - 50 - (bbox.y2 - bbox.y1) \div 2) * Scale]
         ELSE [x |-> (img_width \div 2 - 100) * Scale,
               y |-> (img_height \div 2 - 50 - 20) * Scale]
    ELSE IF field = "date"
    THEN IF bbox.ok
         THEN [x |-> 50 * Scale,
               y |-> (img_height - 100 - (bbox.y2 - bbox.y1) \div 2) * Scale]
         ELSE [x |-> 50 * Scale, y |-> (img_height - 100 - 10) * Scale]
    ELSE IF bbox.ok
         THEN [x |-> (img_width - 200 - (bbox.x2 - bbox.x1)) * Scale,
               y |-> (img_height - 50 - (bbox.y2 - bbox.y1) \div 2) * Scale]
         ELSE [x |-> (img_width - 200 - 100) * Scale,
               y |-> (img_height - 50 - 10) * Scale]

\* the decoded template image, its size, how textbbox behaves on it, and the
\* font files ImageFont.truetype can open on this machine
ImageEvent(img_width, img_height, bbox, fonts) ==
    [kind |-> "image", width |-> img_width, height |-> img_height, bbox |-> bbox,
     fonts |-> fonts]

\* font_paths of the three fields, in list order
font_paths ==
    <<"fonts/radley.ttf", "fonts/arial.ttf", "arial.ttf", "Arial.ttf",
      "C:/Windows/Fonts/arial.ttf", "C:/Windows/Fonts/calibri.ttf",
      "C:/Windows/Fonts/tahoma.ttf", "/System/Library/Fonts/Arial.ttf",
      "/System/Library/Fonts/Helvetica.ttc", "/usr/share/fonts/truetype/arial.ttf",
      "/usr/share/fonts/truetype/dejavu/DejaVuSans.ttf",
      "/usr/share/fonts/truetype/liberation/LiberationSans-Regular.ttf">>

\* the candidates of font_large and font_small
base_font_paths == <<"storage/fonts/PlayfairDisplay-Bold.ttf", "arial.ttf", "calibri.ttf">>

\* ImageFont.truetype(path, size) returns: the file opens and the size is positive
truetype_loads(path, size, fonts) == path \in fonts /\ size > 0

\* variant: the loop does not stop at the first font that loads
resolve_font_no_break(paths, size, fonts) ==
    LET loading == {i \in 1..Len(paths) : truetype_loads(paths[i], size, fonts)}
    IN  IF loading = {}
        THEN [path |-> "default", tried |-> Len(paths), requested_size |-> Some(size)]
        ELSE [path |-> paths[CHOOSE i \in loading : \A j \in loading : i >= j],
              tried |-> Len(paths), requested_size |-> None]

\* for font_path in font_paths: try truetype, break on success, continue on
\* an exception; ImageFont.load_default() with requested_size when none loaded.
\* tried counts the truetype calls made.
resolve_font(paths, size, fonts) ==
    LET RECURSIVE try(_)
        try(i) ==
            IF i > Len(paths)
            THEN [path |-> "default", tried |-> Len(paths), requested_size |-> Some(size)]
            ELSE IF truetype_loads(paths[i], size, fonts)
            THEN [path |-> paths[i], tried |-> i, requested_size |-> None]
            ELSE try(i + 1)
    IN  try(1)

FontEvent(field, size, font) ==
    [kind |-> "font", field |-> field, size |-> size, path |-> font.path,
     tried |-> font.tried, requested_size |-> font.requested_size]

TextEvent(field, text, pos, mode, size, color) ==
    [kind |-> "text", field |-> field, text |-> text, x |-> pos.x, y |-> pos.y,
     mode |-> mode, size |-> size, color |-> color, halo |-> halo(field)]

\* variant: the corners are scaled from the 2000 x 1414 canvas to the image
render_field_scaled_to_image(field, ph, text, img_width, img_height, device_type, bbox, fonts) ==
    IF has_rect(ph)
    THEN IF ph[1].y1 = None \/ ph[1].x2 = None \/ ph[1].y2 = None
         THEN [ok |-> FALSE, error |-> "TypeError", msg |-> "int(None)", events |-> <<>>]
         ELSE LET size == scaled_font_size(ph[1].font_size, device_type)
                  pos  == calculate_text_position(text, bbox,
                              (ph[1].x1[1] * img_width) \div 2000,
                              (ph[1].y1[1] * img_height) \div 1414,
                              (ph[1].x2[1] * img_width) \div 2000,
                              (ph[1].y2[1] * img_height) \div 1414,
                              ph[1].text_align, ph[1].vertical_align, device_type)
                  color == resolve_color(ph[1].color)
                  font == FontEvent(field, size, resolve_font(font_paths, size, fonts))
              IN  IF getrgb_accepts(color)
                  THEN [ok |-> TRUE, error |-> "", msg |-> "",
                        events |-> <<font, TextEvent(field, text, pos, "rect", size, color)>>]
                  ELSE \* draw.text(..., fill=color) raises after the white outline
                       [ok |-> FALSE, error |-> "ValueError",
                        msg |-> "unknown color specifier", events |-> <<font>>]
    ELSE [ok |-> TRUE, error |-> "", msg |-> "",
          events |-> <<TextEvent(field, text,
                                 fallback_position(field, img_width, img_height, bbox),
                                 "fallback", base_font_size(field), DefaultColor)>>]

\* "Position 1/2/3": one text field, from its placeholder to the drawn text
render_field(field, ph, text, img_width, img_height, device_type, bbox, fonts) ==
    IF has_rect(ph)
    THEN IF ph[1].y1 = None \/ ph[1].x2 = None \/ ph[1].y2 = None
         THEN [ok |-> FALSE, error |-> "TypeError", msg |-> "int(None)", events |-> <<>>]
         ELSE LET size == scaled_font_size(ph[1].font_size, device_type)
                  pos  == calculate_text_position(text, bbox,
                              ph[1].x1[1], ph[1].y1[1], ph[1].x2[1], ph[1].y2[1],
                              ph[1].text_align, ph[1].vertical_align, device_type)
                  color == resolve_color(ph[1].color)
                  font == FontEvent(field, size, resolve_font(font_paths, size, fonts))
              IN  IF getrgb_accepts(color)
                  THEN [ok |-> TRUE, error |-> "", msg |-> "",
                        events |-> <<font, TextEvent(field, text, pos, "rect", size, color)>>]
                  ELSE \* draw.text(..., fill=color) raises after the white outline
                       [ok |-> FALSE, error |-> "ValueError",
                        msg |-> "unknown color specifier", events |-> <<font>>]
    ELSE [ok |-> TRUE, error |-> "", msg |-> "",
          events |-> <<TextEvent(field, text,
                                 fallback_position(field, img_width, img_height, bbox),
                                 "fallback", base_font_size(field), DefaultColor)>>]

\* lines 239-255: open the template image from its URL or its path.  The
\* name requests is local to generate_certificate and bound only by the
\* import in the URL branch, so with a local path the first except clause
\* itself raises UnboundLocalError.
load_template_image(image_path, outcome) ==
    IF outcome = "ok" THEN [ok |-> TRUE, error |-> "", msg |-> ""]
    ELSE IF image_path = "http"
    THEN IF outcome = "request_error"
         THEN [ok |-> FALSE, error |-> "ValueError",
               msg |-> "Template image not accessible from Google Drive"]
         ELSE [ok |-> FALSE, error |-> "ValueError",
               msg |-> "Failed to load template image"]
    ELSE [ok |-> FALSE, error |-> "UnboundLocalError",
          msg |-> "cannot access local variable 'requests'"]

\* outcomes that opening the image can have for a kind of image_path
LoadOutcomes(image_path) ==
    IF image_path = "http" THEN {"ok", "request_error", "bad_bytes"}
    ELSE {"ok", "missing_file", "bad_bytes"}

QrEvent(payload, x, y) ==
    [kind |-> "qr", payload |-> payload, x |-> x, y |-> y, size |-> QrSize]

UploadEvent(folder, name, stored) ==
    [kind |-> "upload", folder |-> folder, name |-> name, stored |-> stored]

InsertEvent(doc) == [kind |-> "insert", doc |-> doc]

\* student_data, without the fields that are constant or empty
student_data(certificate_id, template_id, student_name, course_name, date_str, student_email, cert_stored, qr_stored) ==
    [certificate_id |-> certificate_id,
     template_id |-> template_id,
     student_name |-> student_name,
     course_name |-> course_name,
     date_of_registration |-> date_str,
     image_path |-> IF cert_stored = "drive" THEN "drive"
                    ELSE "/storage/certificates/" \o certificate_id \o ".png",
     qr_path |-> IF qr_stored = "drive" THEN "drive"
                 ELSE "/storage/qr/" \o certificate_id \o ".png",
     verified |-> TRUE,
     revoked |-> FALSE,
     revoked_reason |-> None,      \* the key is absent until a revocation sets it
     revoked_at |-> None,
     student_email |-> student_email]

EmailEvent(to_email, outcome) == [kind |-> "email", to |-> to_email, outcome |-> outcome]

\* variant: the send is not wrapped in try/except
send_certificate_email_unguarded(student_email, smtp) ==
    IF student_email = "" THEN [raised |-> FALSE, events |-> <<>>]
    ELSE [raised |-> smtp = "failed", events |-> <<EmailEvent(student_email, smtp)>>]

\* lines 770-787: the send is attempted when an address was given, and
\* whatever it raises is caught and printed
send_certificate_email(student_email, smtp) ==
    IF student_email = "" THEN [raised |-> FALSE, events |-> <<>>]
    ELSE [raised |-> FALSE, events |-> <<EmailEvent(student_email, smtp)>>]

\* insert_one: a unique index on certificate_id rejects a value already stored
insert_accepted(collection, doc) ==
    \/ ~collection.unique
    \/ \A i \in 1..Len(collection.docs) :
          collection.docs[i].certificate_id # doc.certificate_id

\* variant: the QR payload is built from the template identifier
finish_certificate_qr_of_template(effects, certificate_id, template_id, placeholders, student_name, course_name, date_str, student_email, img_width, img_height, env, collection) ==
    LET qr_placeholder == first_placeholder(placeholders, "qr_code")
        payload == BaseUrl \o "/verify/" \o template_id
        file_name == certificate_id \o ".png"
    IN  IF has_rect(qr_placeholder) /\ qr_placeholder[1].y1 = None
        THEN Raise("qr", "TypeError", "int(None)", effects)
        ELSE
        LET qr_x == IF has_rect(qr_placeholder) THEN qr_placeholder[1].x1[1]
                    ELSE img_width - QrSize - 50
            qr_y == IF has_rect(qr_placeholder) THEN qr_placeholder[1].y1[1]
                    ELSE img_height - QrSize - 50
            e1 == effects \o <<QrEvent(payload, qr_x, qr_y)>>
            e2 == e1 \o <<UploadEvent("certificates", file_name, env.cert_upload)>>
            e3 == e2 \o <<UploadEvent("qr", file_name, env.qr_upload)>>
            doc == student_data(certificate_id, template_id, student_name, course_name,
                                date_str, student_email, env.cert_upload, env.qr_upload)
            mail == send_certificate_email(student_email, env.smtp)
        IN  IF env.cert_upload = "none"
            THEN Raise("upload", "ValueError",
                       "Failed to upload certificate to Google Drive and fallback save failed",
                       e2)
            ELSE IF env.qr_upload = "none"
            THEN Raise("upload", "ValueError", "Failed to upload QR code to Google Drive", e3)
            ELSE IF ~insert_accepted(collection, doc)
            THEN Raise("insert", "DuplicateKeyError", "certificate_id", e3)
            ELSE IF mail.raised
            THEN Raise("email", "SMTPException", "send failed",
                       e3 \o <<InsertEvent(doc)>> \o mail.events)
            ELSE Return(e3 \o <<InsertEvent(doc)>> \o mail.events, <<doc>>)

\* lines 627-789, once the three text fields are drawn
finish_certificate(effects, certificate_id, template_id, placeholders, student_name, course_name, date_str, student_email, img_width, img_height, env, collection) ==
    LET qr_placeholder == first_placeholder(placeholders, "qr_code")
        payload == BaseUrl \o "/verify/" \o certificate_id
        file_name == certificate_id \o ".png"
    IN  IF has_rect(qr_placeholder) /\ qr_placeholder[1].y1 = None
        THEN Raise("qr", "TypeError", "int(None)", effects)
        ELSE
        LET qr_x == IF has_rect(qr_placeholder) THEN qr_placeholder[1].x1[1]
                    ELSE img_width - QrSize - 50
            qr_y == IF has_rect(qr_placeholder) THEN qr_placeholder[1].y1[1]
                    ELSE img_height - QrSize - 50
            e1 == effects \o <<QrEvent(payload, qr_x, qr_y)>>
            e2 == e1 \o <<UploadEvent("certificates", file_name, env.cert_upload)>>
            e3 == e2 \o <<UploadEvent("qr", file_name, env.qr_upload)>>
            doc == student_data(certificate_id, template_id, student_name, course_name,
                                date_str, student_email, env.cert_upload, env.qr_upload)
            mail == send_certificate_email(student_email, env.smtp)
        IN  IF env.cert_upload = "none"
            THEN Raise("upload", "ValueError",
                       "Failed to upload certificate to Google Drive and fallback save failed",
                       e2)
            ELSE IF env.qr_upload = "none"
            THEN Raise("upload", "ValueError", "Failed to upload QR code to Google Drive", e3)
            ELSE IF ~insert_accepted(collection, doc)
            THEN Raise("insert", "DuplicateKeyError", "certificate_id", e3)
            ELSE IF mail.raised
            THEN Raise("email", "SMTPException", "send failed",
                       e3 \o <<InsertEvent(doc)>> \o mail.events)
            ELSE Return(e3 \o <<InsertEvent(doc)>> \o mail.events, <<doc>>)

generate_certificate(drive, template, template_id, student_name, course_name, date_str, device_type, student_email, env, collection) ==
    IF ~drive
    THEN Raise("service", "ValueError", "Google Drive service is not available", <<>>)
    ELSE IF ~template.present
    THEN Raise("template", "ValueError", "Template not found", <<>>)
    ELSE
    LET certificate_id == generate_certificate_id(env.today, env.random_suffix)
        image == load_template_image(template.image_path, env.load)
    IN  IF ~image.ok
        THEN Raise("image", image.error, image.msg, <<>>)
        ELSE
        LET W == env.size[1]
            H == env.size[2]
            phs == template.placeholders
            base_font == resolve_font(base_font_paths, 48, env.fonts)
            e0 == <<ImageEvent(W, H, env.bbox, env.fonts),
                    FontEvent("base", 48, [base_font EXCEPT !.requested_size = None]),
                    FontEvent("base", 18, [base_font EXCEPT !.requested_size = None])>>
            name == render_field("student_name", first_placeholder(phs, "student_name"),
                                 student_name, W, H, device_type, env.bbox, env.fonts)
            date == render_field("date", first_placeholder(phs, "date"),
                                 date_str, W, H, device_type, env.bbox, env.fonts)
            cert_no == render_field("certificate_no",
                                    first_placeholder(phs, "certificate_no"),
                                    certificate_id, W, H, device_type, env.bbox,
                                    env.fonts)
        IN  IF ~name.ok THEN Raise("text", name.error, name.msg, e0 \o name.events)
            ELSE IF ~date.ok
            THEN Raise("text", date.error, date.msg, e0 \o name.events \o date.events)
            ELSE IF ~cert_no.ok
            THEN Raise("text", cert_no.error, cert_no.msg,
                       e0 \o name.events \o date.events \o cert_no.events)
            ELSE finish_certificate(e0 \o name.events \o date.events \o cert_no.events,
                                    certificate_id, template_id, phs, student_name,
                                    course_name, date_str, student_email, W, H, env,
                                    collection)

-----------------------------------------------------------------------------
(* Requests and environment of the service                                 *)

\* arguments of generate_certificate: as POST /api/certificates/generate passes
\* them, without an address, and a call that gives student_email; the last two
\* differ only in the device_type string, which is neither desktop nor mobile
Requests ==
    {[student_name |-> "Alice Johnson", course_name |-> "Career Catalyst",
      date_str |-> "2025-07-10", device_type |-> "desktop", student_email |-> ""],
     [student_name |-> "Bob", course_name |-> "", date_str |-> "2025-07-11",
      device_type |-> "mobile", student_email |-> "bob@example.com"],
     [student_name |-> "Alice Johnson", course_name |-> "Career Catalyst",
      date_str |-> "2025-07-10", device_type |-> "tablet", student_email |-> ""],
     [student_name |-> "Alice Johnson", course_name |-> "Career Catalyst",
      date_str |-> "2025-07-10", device_type |-> "kiosk", student_email |-> ""]}

Today == strftime_Ymd([year |-> 2026, month |-> 11, day |-> 1])
RandomSuffixes == {join_choices(<<1, 28, 2, 29, 3, 30>>), join_choices(<<26, 26, 26, 26, 26, 36>>)}
MeasuredBox == [ok |-> TRUE, x1 |-> 1, y1 |-> 3, x2 |-> 301, y2 |-> 36]

\* the decoded image, the behaviour of textbbox on it, and the font files
\* that open: the deployment fonts, two system fonts, or none
Images ==
    {[size |-> <<2000, 1414>>, bbox |-> MeasuredBox,
      fonts |-> {"fonts/radley.ttf", "fonts/arial.ttf"}],
     [size |-> <<1000, 707>>, bbox |-> MeasuredBox,
      fonts |-> {"arial.ttf", "/usr/share/fonts/truetype/dejavu/DejaVuSans.ttf",
                 "/usr/share/fonts/truetype/liberation/LiberationSans-Regular.ttf"}],
     [size |-> <<2000, 1414>>, bbox |-> FailedBox, fonts |-> {}]}

\* where the certificate and the QR image end up: on Drive, in the local
\* fallback directory, or nowhere; and whether the SMTP send goes through
Uploads ==
    {[cert |-> "drive", qr |-> "drive", smtp |-> "sent"],
     [cert |-> "local", qr |-> "local", smtp |-> "failed"],
     [cert |-> "none", qr |-> "drive", smtp |-> "sent"],
     [cert |-> "drive", qr |-> "none", smtp |-> "sent"]}

\* what one generate_certificate call meets: the clock, the draws, the image
\* behind image_path and the fate of the two uploads
GenerateEnvs(suffixes, images, uploads, image_path) ==
    {[today |-> Today, random_suffix |-> rs, load |-> "ok", size |-> im.size,
      bbox |-> im.bbox, fonts |-> im.fonts, cert_upload |-> up.cert,
      qr_upload |-> up.qr, smtp |-> up.smtp] :
        rs \in suffixes, im \in images, up \in uploads}
    \cup
    {[today |-> Today, random_suffix |-> "A1B2C3", load |-> lo, size |-> <<0, 0>>,
      bbox |-> FailedBox, fonts |-> {}, cert_upload |-> "none", qr_upload |-> "none",
      smtp |-> "failed"] :
        lo \in LoadOutcomes(image_path) \ {"ok"}}

\* no call in flight
NoTasks == <<>>

NoOp == [op |-> "none", args |-> <<>>, ok |-> TRUE, stage |-> "", error |-> "",
         msg |-> "", effects |-> <<>>, result |-> <<>>]

\* what a handler run leaves to observe: its arguments, how it ended, what it did
Outcome(op, args, r) ==
    [op |-> op, args |-> args, ok |-> r.ok, stage |-> r.stage, error |-> r.error,
     msg |-> r.msg, effects |-> r.effects, result |-> r.result]

lookup_template(template_id) ==
    IF template_id \in TemplateIds THEN templates[template_id] ELSE NoTemplate

-----------------------------------------------------------------------------
(* Operations                                                              *)

\* TemplateService.upload_template, for files of the given kinds
upload_template(extensions_ok, storeds) ==
    \E template_id \in TemplateIds, extension_ok \in extensions_ok, stored \in storeds :
        LET r == IF ~drive_service
                 THEN Raise("service", "ValueError",
                            "Google Drive service is not available", <<>>)
                 ELSE IF ~extension_ok
                 THEN Raise("file", "ValueError",
                            "Only PNG, JPG, and JPEG files are allowed", <<>>)
                 ELSE IF stored = "none"
                 THEN Raise("upload", "ValueError",
                            "Failed to upload template to Google Drive",
                            <<UploadEvent("templates", template_id, "none")>>)
                 ELSE IF templates[template_id].present
                 THEN Raise("insert", "DuplicateKeyError", "template_id",
                            <<UploadEvent("templates", template_id, "drive")>>)
                 ELSE Return(<<UploadEvent("templates", template_id, "drive")>>, <<>>)
        IN  /\ last' = Outcome("upload_template", [template_id |-> template_id], r)
            /\ templates' =
                 IF r.ok
                 THEN [templates EXCEPT ![template_id] =
                          [present |-> TRUE, image_path |-> stored, placeholders |-> <<>>]]
                 ELSE templates
            /\ UNCHANGED <<drive_service, student_details, storeVars, layoutVars, tasks>>

UploadTemplate == upload_template(BOOLEAN, {"http", "local", "none"})

\* TemplateService.set_placeholders, reached from POST and PUT .../placeholders
set_placeholders(placeholder_lists) ==
    \E template_id \in TemplateIds \cup {UnknownTemplateId},
       placeholders \in placeholder_lists :
        LET found == lookup_template(template_id).present
            r == IF found THEN Return(<<>>, <<>>)
                 ELSE Raise("template", "ValueError", "Template not found", <<>>)
        IN  /\ last' = Outcome("set_placeholders", [template_id |-> template_id], r)
            /\ templates' =
                 IF found
                 THEN [templates EXCEPT ![template_id].placeholders = placeholders]
                 ELSE templates
            /\ UNCHANGED <<drive_service, student_details, storeVars, layoutVars, tasks>>

SetPlaceholders == set_placeholders(PlaceholderLists)

\* the documents a run of generate_certificate passed to insert_one
inserted(effects) ==
    LET idx == {i \in 1..Len(effects) : effects[i].kind = "insert"}
    IN  IF idx = {} THEN <<>> ELSE <<effects[CHOOSE i \in idx : TRUE].doc>>

\* CertificateService.generate_certificate, for the given requests and
\* environments, while the collection holds fewer than max_docs documents
generate(max_docs, template_ids, requests, suffixes, images, uploads) ==
    /\ Len(student_details) < max_docs
    /\ \E template_id \in template_ids, req \in requests :
        LET template == lookup_template(template_id)
        IN  \E env \in GenerateEnvs(suffixes, images, uploads, template.image_path) :
            /\ last' = Outcome("generate_certificate",
                               [template_id |-> template_id,
                                student_name |-> req.student_name,
                                course_name |-> req.course_name,
                                date_str |-> req.date_str,
                                device_type |-> req.device_type,
                                student_email |-> req.student_email],
                               generate_certificate(drive_service, template, template_id,
                                                    req.student_name, req.course_name,
                                                    req.date_str, req.device_type,
                                                    req.student_email, env,
                                                    [unique |-> unique_index,
                                                     docs |-> student_details]))
            /\ student_details' = student_details \o inserted(last'.effects)
            /\ UNCHANGED <<drive_service, templates, storeVars, layoutVars, tasks>>

GenerateCertificate ==
    generate(MaxCerts, TemplateIds \cup {UnknownTemplateId}, Requests, RandomSuffixes,
             Images, Uploads)

-----------------------------------------------------------------------------
(* Operations on stored records                                            *)

\* the draws of the record store: two calls may draw the same six characters
StoreSuffixes == RandomSuffixes

\* the identifiers the handlers are called with: the one generate_certificate_id
\* returns for those draws, and one that was never issued
UnknownCertificateId == "TBS-20261101-NONE00"
CertificateIds ==
    {generate_certificate_id(Today, rs) : rs \in StoreSuffixes} \cup {UnknownCertificateId}

\* position of the document find_one, update_one and delete_one act on: the
\* first one with that certificate_id, 0 when there is none
first_match(docs, certificate_id) ==
    LET idx == {i \in 1..Len(docs) : docs[i].certificate_id = certificate_id}
    IN  IF idx = {} THEN 0 ELSE CHOOSE i \in idx : \A j \in idx : i <= j

\* CertificateService.get_certificate
get_certificate(certificate_id) ==
    LET k == first_match(student_details, certificate_id)
    IN  IF k = 0 THEN None ELSE Some(student_details[k])

\* {"$set": fields} on one document, for keys the document has
set_fields(doc, fields) ==
    [key \in DOMAIN doc |-> IF key \in DOMAIN fields THEN fields[key] ELSE doc[key]]

RevokeReasons == {"issued in error"}

\* CertificateService.revoke_certificate
RevokeCertificate ==
    \E certificate_id \in CertificateIds, reason \in RevokeReasons :
        LET k == first_match(student_details, certificate_id)
            r == IF k = 0
                 THEN Raise("lookup", "ValueError", "Certificate not found", <<>>)
                 ELSE Return(<<>>, <<>>)
        IN  /\ last' = Outcome("revoke_certificate",
                               [certificate_id |-> certificate_id, reason |-> reason], r)
            /\ student_details' =
                 IF k = 0 THEN student_details
                 ELSE [student_details EXCEPT ![k] =
                          [@ EXCEPT !.verified = FALSE, !.revoked = TRUE,
                                    !.revoked_reason = Some(reason),
                                    !.revoked_at = Some(Today)]]
            /\ UNCHANGED <<drive_service, templates, storeVars, layoutVars, tasks>>

\* without the document at position k
remove_at(docs, k) == SubSeq(docs, 1, k - 1) \o SubSeq(docs, k + 1, Len(docs))

\* delete_many({"certificate_id": certificate_id})
delete_many(docs, certificate_id) ==
    SelectSeq(docs, LAMBDA doc : doc.certificate_id # certificate_id)

\* CertificateService.delete_certificate: failures of the Drive deletions and
\* of the delete_many on db.certificates are caught and printed
DeleteCertificate ==
    \E certificate_id \in CertificateIds :
        LET k == first_match(student_details, certificate_id)
            r == IF k = 0
                 THEN Raise("lookup", "ValueError", "Certificate not found", <<>>)
                 ELSE Return(<<>>, <<>>)
        IN  /\ last' = Outcome("delete_certificate", [certificate_id |-> certificate_id], r)
            /\ student_details' =
                 IF k = 0 THEN student_details ELSE remove_at(student_details, k)
            /\ certificates' =
                 IF k = 0 THEN certificates ELSE delete_many(certificates, certificate_id)
            /\ UNCHANGED <<drive_service, templates, unique_index, verification_logs,
                           layoutVars, tasks>>

\* bodies of PUT /api/students/{certificate_id}
StudentUpdates == {[student_name |-> "Mallory", revoked |-> TRUE]}

\* variant: the update is made on student_details
UpdateStudentDetails_in_student_details ==
    \E certificate_id \in CertificateIds, fields \in StudentUpdates :
        LET k == first_match(student_details, certificate_id)
            r == IF k = 0
                 THEN Raise("endpoint", "HTTPException", "400", <<>>)
                 ELSE Return(<<>>, <<>>)
        IN  /\ last' = Outcome("update_student_details",
                               [certificate_id |-> certificate_id, fields |-> fields], r)
            /\ student_details' =
                 IF k = 0 THEN student_details
                 ELSE [student_details EXCEPT ![k] = set_fields(@, fields)]
            /\ UNCHANGED <<drive_service, templates, certificates, unique_index,
                           verification_logs, layoutVars, tasks>>

\* PUT /api/students/{certificate_id}: update_one on db.certificates; the 404
\* raised when nothing matches is caught by the handler's own except Exception
\* and leaves as status 400
UpdateStudentDetails ==
    \E certificate_id \in CertificateIds, fields \in StudentUpdates :
        LET k == first_match(certificates, certificate_id)
            r == IF k = 0
                 THEN Raise("endpoint", "HTTPException", "400", <<>>)
                 ELSE Return(<<>>, <<>>)
        IN  /\ last' = Outcome("update_student_details",
                               [certificate_id |-> certificate_id, fields |-> fields], r)
            /\ certificates' =
                 IF k = 0 THEN certificates
                 ELSE [certificates EXCEPT ![k] = set_fields(@, fields)]
            /\ UNCHANGED <<drive_service, templates, student_details, unique_index,
                           verification_logs, layoutVars, tasks>>

\* variant: the revoked flag is not looked at
verification_result_ignoring_revoked(certificate) ==
    IF certificate = None THEN "failed" ELSE "success"

\* verification_result of GET /verify/{certificate_id}
verification_result(certificate) ==
    IF certificate = None THEN "failed"
    ELSE IF certificate[1].revoked THEN "revoked"
    ELSE "success"

\* GET /verify/{certificate_id}: one document into db.verification_logs and
\* the page for the result
VerifyCertificate ==
    /\ Len(verification_logs) < MaxLogs
    /\ \E certificate_id \in CertificateIds :
        LET result == verification_result(get_certificate(certificate_id))
            log == [certificate_id |-> certificate_id, verification_result |-> result]
        IN  /\ last' = Outcome("verify_certificate", [certificate_id |-> certificate_id],
                               Return(<<InsertEvent(log)>>, <<[page |-> result]>>))
            /\ verification_logs' = Append(verification_logs, log)
            /\ UNCHANGED <<drive_service, templates, student_details, unique_index,
                           certificates, layoutVars, tasks>>

\* GET /api/certificates/{certificate_id}: the HTTPException(404) of the try
\* block is an Exception, so the handler's own except clause catches it and
\* raises HTTPException(400) with the text of the first as detail
get_certificate_endpoint(certificate_id) ==
    LET certificate == get_certificate(certificate_id)
        body == IF certificate = None
                THEN Raise("endpoint", "HTTPException", "404", <<>>)
                ELSE Return(<<>>, certificate)
    IN  IF body.ok THEN body ELSE Raise("endpoint", "HTTPException", "400", <<>>)

GetCertificate ==
    \E certificate_id \in CertificateIds :
        /\ last' = Outcome("get_certificate", [certificate_id |-> certificate_id],
                           get_certificate_endpoint(certificate_id))
        /\ UNCHANGED <<drive_service, templates, student_details, storeVars, layoutVars, tasks>>

\* count_documents({"verification_result": result})
count_documents(docs, result) ==
    Len(SelectSeq(docs, LAMBDA doc : /\ "verification_result" \in DOMAIN doc
                                     /\ doc.verification_result = result))

\* GET /api/verification-stats: the three counts are taken on db.certificates
get_verification_stats ==
    [total_verifications |-> Len(certificates),
     successful_verifications |-> count_documents(certificates, "success"),
     failed_verifications |-> count_documents(certificates, "failed")]

GetVerificationStats ==
    /\ last' = Outcome("get_verification_stats", <<>>,
                       Return(<<>>, <<get_verification_stats>>))
    /\ UNCHANGED <<drive_service, templates, student_details, storeVars, layoutVars, tasks>>

\* GET /api/verification-logs: up to 100 documents of db.certificates, which
\* have no verified_at to be sorted by
get_verification_logs ==
    LET logs == SubSeq(certificates, 1, Min(100, Len(certificates)))
    IN  [logs |-> logs, total |-> Len(logs)]

GetVerificationLogs ==
    /\ last' = Outcome("get_verification_logs", <<>>,
                       Return(<<>>, <<get_verification_logs>>))
    /\ UNCHANGED <<drive_service, templates, student_details, storeVars, layoutVars, tasks>>

-----------------------------------------------------------------------------
(* Two generate_certificate calls in flight at once                        *)

\* the calls.  What a call holds in local variables (template, certificate_id,
\* template_image, draw, student_data) is its own entry of tasks; what the
\* calls share is the service object and the collections.  Another call can
\* run between two database operations of a call when the calls are served
\* by different workers, and at the await of the email thread when they are
\* served by one event loop.
Tasks == {1, 2}

Pending == Return(<<>>, <<>>)

TaskRequests == {req \in Requests : req.device_type \in {"desktop", "mobile"}}
TaskUploads == {up \in Uploads : up.cert = up.qr}
TaskImages == {im \in Images : im.size = <<2000, 1414>> /\ im.bbox.ok}
TaskEnvs == GenerateEnvs(RandomSuffixes, TaskImages, TaskUploads, "http")

\* the two calls as they are made: arguments and what each will meet
CalledTasks ==
    [Tasks -> {[pc |-> "called", args |-> req, env |-> env, template |-> NoTemplate,
                outcome |-> Pending] :
                   req \in TaskRequests,
                   env \in {e \in TaskEnvs : e.load = "ok"}}]

\* lines 231-234: find_one on db.templates
FindTemplate(t) ==
    /\ tasks[t].pc = "called"
    /\ \E template_id \in TemplateIds :
          tasks' = [tasks EXCEPT ![t].pc = "found",
                                 ![t].args = [template_id |-> template_id,
                                              student_name |-> @.student_name,
                                              course_name |-> @.course_name,
                                              date_str |-> @.date_str,
                                              device_type |-> @.device_type,
                                              student_email |-> @.student_email],
                                 ![t].template = lookup_template(template_id)]
    /\ UNCHANGED <<layoutVars, serviceVars>>

\* the outcome of the call of task t on what it read and what the collection
\* holds when it comes to insert_one
task_outcome(t, docs) ==
    generate_certificate(drive_service, tasks[t].template, tasks[t].args.template_id,
                         tasks[t].args.student_name, tasks[t].args.course_name,
                         tasks[t].args.date_str, tasks[t].args.device_type,
                         tasks[t].args.student_email, tasks[t].env,
                         [unique |-> unique_index, docs |-> docs])

\* lines 236-767: composition on the call's own image, uploads and insert_one
ComposeAndInsert(t) ==
    /\ tasks[t].pc = "found"
    /\ LET out == task_outcome(t, student_details)
       IN  /\ tasks' = [tasks EXCEPT ![t].pc = IF out.ok /\ tasks[t].args.student_email # ""
                                               THEN "email" ELSE "done",
                                     ![t].outcome = out]
           /\ student_details' = student_details \o inserted(out.effects)
    /\ UNCHANGED <<layoutVars, drive_service, templates, storeVars, last>>

\* variant: the call returns the document the collection received last
SendEmailAndReturn_last_inserted(t) ==
    /\ tasks[t].pc = "email"
    /\ tasks' = [tasks EXCEPT ![t].pc = "done",
                              ![t].outcome.result =
                                  <<student_details[Len(student_details)]>>]
    /\ UNCHANGED <<layoutVars, serviceVars>>

\* lines 769-789: the await of the email thread, then return student_data
SendEmailAndReturn(t) ==
    /\ tasks[t].pc = "email"
    /\ tasks' = [tasks EXCEPT ![t].pc = "done"]
    /\ UNCHANGED <<layoutVars, serviceVars>>

ConcurrentSetPlaceholders ==
    set_placeholders({LegacyPlaceholders, RectPlaceholders})

-----------------------------------------------------------------------------
(* Specifications                                                          *)

\* the service after construction: empty collections, Drive authenticated or not
Init ==
    /\ call = IdleCall
    /\ ret = NoRet
    /\ drive_service \in BOOLEAN
    /\ templates = [t \in TemplateIds |-> NoTemplate]
    /\ student_details = <<>>
    /\ unique_index = FALSE
    /\ certificates = <<>>
    /\ verification_logs = <<>>
    /\ last = NoOp
    /\ tasks = NoTasks

Next ==
    \/ UploadTemplate
    \/ SetPlaceholders
    \/ GenerateCertificate

Spec == Init /\ [][Next]_vars

\* one call of the layout routine on arguments drawn from LayoutCalls
LayoutInit ==
    /\ call \in LayoutCalls
    /\ ret = NoRet
    /\ drive_service = TRUE
    /\ templates = [t \in TemplateIds |-> NoTemplate]
    /\ student_details = <<>>
    /\ unique_index = FALSE
    /\ certificates = <<>>
    /\ verification_logs = <<>>
    /\ last = NoOp
    /\ tasks = NoTasks

LayoutNext == CalculateTextPosition

LayoutSpec == LayoutInit /\ [][LayoutNext]_vars

\* the record store: the same handlers on a narrower choice of compositions,
\* with room for MaxStored documents.  main.py puts no unique index on
\* student_details; one exists where migrate_to_student_details.py created it.
StoreRequests == {req \in Requests : req.device_type \in {"desktop", "mobile"}}
StoreImages == {im \in Images : im.size = <<2000, 1414>> /\ im.bbox.ok}
StoreUploads == {up \in Uploads : up.cert = "drive" /\ up.qr = "drive"}

StoreUploadTemplate == upload_template({TRUE}, {"http"})
StoreGenerateCertificate ==
    generate(MaxStored, TemplateIds, StoreRequests, StoreSuffixes, StoreImages,
             StoreUploads)

StoreInit ==
    /\ call = IdleCall
    /\ ret = NoRet
    /\ drive_service = TRUE
    /\ templates = [t \in TemplateIds |-> NoTemplate]
    /\ student_details = <<>>
    /\ unique_index \in BOOLEAN
    /\ certificates = <<>>
    /\ verification_logs = <<>>
    /\ last = NoOp
    /\ tasks = NoTasks

StoreNext ==
    \/ StoreUploadTemplate
    \/ StoreGenerateCertificate
    \/ RevokeCertificate
    \/ DeleteCertificate
    \/ UpdateStudentDetails
    \/ VerifyCertificate
    \/ GetCertificate
    \/ GetVerificationStats
    \/ GetVerificationLogs

StoreSpec == StoreInit /\ [][StoreNext]_vars

\* two calls made on a running service, in a deployment with or without the
\* unique index, while templates are uploaded and their placeholders set
ConcurrentInit ==
    /\ call = IdleCall
    /\ ret = NoRet
    /\ drive_service = TRUE
    /\ templates = [t \in TemplateIds |-> NoTemplate]
    /\ student_details = <<>>
    /\ unique_index \in BOOLEAN
    /\ certificates = <<>>
    /\ verification_logs = <<>>
    /\ last = NoOp
    /\ tasks \in CalledTasks

ConcurrentNext ==
    \/ StoreUploadTemplate
    \/ ConcurrentSetPlaceholders
    \/ \E t \in Tasks : FindTemplate(t)
    \/ \E t \in Tasks : ComposeAndInsert(t)
    \/ \E t \in Tasks : SendEmailAndReturn(t)

ConcurrentSpec == ConcurrentInit /\ [][ConcurrentNext]_vars

\* one call of generate_certificate_id on a clock and draws from IdCalls
IdInit ==
    /\ call \in IdCalls
    /\ ret = NoId
    /\ drive_service = TRUE
    /\ templates = [t \in TemplateIds |-> NoTemplate]
    /\ student_details = <<>>
    /\ unique_index = FALSE
    /\ certificates = <<>>
    /\ verification_logs = <<>>
    /\ last = NoOp
    /\ tasks = NoTasks

IdNext == GenerateCertificateId

IdSpec == IdInit /\ [][IdNext]_vars

-----------------------------------------------------------------------------
(* Properties of the layout routine (LayoutSpec)                           *)

\* the call under study, as the properties speak of it
TW == IF call.bbox.ok THEN call.bbox.x2 - call.bbox.x1 ELSE Len(call.text) * 10
TH == IF call.bbox.ok THEN call.bbox.y2 - call.bbox.y1 ELSE 20
RW == call.x2 - call.x1
RH == call.y2 - call.y1
PX == padding_x(call.device_type, RW)
PY == padding_y(call.device_type, RH)
FitsStrictly == TW * Scale < RW * Scale - 2 * PX /\ TH * Scale < RH * Scale - 2 * PY
Fits == TW * Scale <= RW * Scale - 2 * PX /\ TH * Scale <= RH * Scale - 2 * PY
CenterCenter == call.text_align = "center" /\ call.vertical_align = "center"
FloorCenterX == (call.x1 + (RW - TW) \div 2) * Scale
FloorCenterY == (call.y1 + (RH - TH) \div 2) * Scale
Abs(n) == IF n >= 0 THEN n ELSE -n

\* C1: for a rectangle with x2 > x1 and y2 > y1, any alignment and any device
\* class, a text that is strictly smaller than the padded rectangle is placed
\* with its box inside the rectangle: x1 <= x, x + tw <= x2, y1 <= y, y + th <= y2.
C1_TextBoxInsideRectangle ==
    (ret.done /\ RW > 0 /\ RH > 0 /\ FitsStrictly) =>
        /\ call.x1 * Scale <= ret.x
        /\ ret.x + TW * Scale <= call.x2 * Scale
        /\ call.y1 * Scale <= ret.y
        /\ ret.y + TH * Scale <= call.y2 * Scale

C1_Witness ==
    /\ ret.done /\ RW > 0 /\ RH > 0 /\ FitsStrictly
    /\ call.text_align = "right" /\ call.vertical_align = "bottom"
    /\ call.device_type = "mobile"

\* C2, as claimed: centred on both axes, a text that fits strictly is returned at
\* exactly x1 + floor((rw - tw)/2), y1 + floor((rh - th)/2): no clamp acts.
C2_CenterExactlyFloor ==
    (ret.done /\ CenterCenter /\ FitsStrictly) =>
        ret.x = FloorCenterX /\ ret.y = FloorCenterY

\* C2, amended: centred on both axes, a text that fits strictly is returned at
\* x1 + floor((rw - tw)/2) unless the fractional padding lies above it, and then
\* at x1 + pad_x, less than half a pixel further right; likewise for y.
C2_CenterFloorOrPadding ==
    (ret.done /\ CenterCenter /\ FitsStrictly) =>
        /\ ret.x = Max(call.x1 * Scale + PX, FloorCenterX)
        /\ ret.y = Max(call.y1 * Scale + PY, FloorCenterY)
        /\ 2 * (ret.x - FloorCenterX) < Scale
        /\ 2 * (ret.y - FloorCenterY) < Scale

C2_Witness ==
    /\ ret.done /\ CenterCenter /\ FitsStrictly
    /\ ret.x = call.x1 * Scale + PX
    /\ ret.x > FloorCenterX

\* C3: when the text fits the padded rectangle, left pins x to x1 + pad_x, right
\* to x2 - tw - pad_x, top pins y to y1 + pad_y and bottom to y2 - th - pad_y.
C3_BorderAlignmentPinned ==
    (ret.done /\ Fits) =>
        /\ call.text_align = "left" => ret.x = call.x1 * Scale + PX
        /\ call.text_align = "right" => ret.x = call.x2 * Scale - TW * Scale - PX
        /\ call.vertical_align = "top" => ret.y = call.y1 * Scale + PY
        /\ call.vertical_align = "bottom" => ret.y = call.y2 * Scale - TH * Scale - PY

C3_Witness ==
    /\ ret.done /\ Fits /\ ~FitsStrictly
    /\ call.text_align = "right" /\ call.vertical_align = "bottom"
    /\ ret.x = call.x2 * Scale - TW * Scale - PX

\* C4: centred on both axes, the middle of the box of a text that fits is within
\* half a pixel of the middle of the rectangle on each axis.
C4_CenterMidpointWithinHalfPixel ==
    (ret.done /\ CenterCenter /\ Fits) =>
        /\ Abs(2 * ret.x + TW * Scale - (call.x1 + call.x2) * Scale) <= Scale
        /\ Abs(2 * ret.y + TH * Scale - (call.y1 + call.y2) * Scale) <= Scale

\* the scenario rectangle (600,600)-(1400,700) on desktop
C4_Witness ==
    /\ ret.done /\ CenterCenter /\ Fits
    /\ call.x1 = 600 /\ call.y1 = 600 /\ call.x2 = 1400 /\ call.y2 = 700
    /\ call.device_type = "desktop"
    /\ (RW - TW) % 2 = 1

\* the same call made with device class desktop
DesktopPosition ==
    calculate_text_position(call.text, call.bbox, call.x1, call.y1, call.x2, call.y2,
                            call.text_align, call.vertical_align, "desktop")
FitsDesktopX == TW * Scale <= RW * Scale - 2 * padding_x("desktop", RW)
FitsDesktopY == TH * Scale <= RH * Scale - 2 * padding_y("desktop", RH)

\* C5, as claimed: for every rectangle with x2 > x1 and y2 > y1 the mobile padding
\* is strictly larger than the desktop padding on both axes, and a left/top or
\* right/bottom aligned text gets another origin on mobile than on desktop.
C5_MobilePaddingLarger ==
    (ret.done /\ call.device_type = "mobile" /\ RW > 0 /\ RH > 0) =>
        /\ PX > padding_x("desktop", RW)
        /\ PY > padding_y("desktop", RH)
        /\ \/ call.text_align = "left" /\ call.vertical_align = "top"
           \/ call.text_align = "right" /\ call.vertical_align = "bottom"
           => <<ret.x, ret.y>> # <<DesktopPosition.x, DesktopPosition.y>>

\* C5, amended: for every such rectangle the mobile pad_x is strictly larger than
\* the desktop pad_x; the mobile pad_y is strictly larger than the desktop pad_y
\* exactly when rh >= 63 and strictly smaller otherwise; a left (top) aligned
\* text gets another x (y) on mobile than on desktop, and so does a right
\* (bottom) aligned text that fits the padded rectangle of both device classes.
C5_MobilePaddingLargerFromHeight63 ==
    (ret.done /\ call.device_type = "mobile" /\ RW > 0 /\ RH > 0) =>
        /\ PX > padding_x("desktop", RW)
        /\ RH >= 63 => PY > padding_y("desktop", RH)
        /\ RH < 63 => PY < padding_y("desktop", RH)
        /\ call.text_align = "left" => ret.x # DesktopPosition.x
        /\ call.vertical_align = "top" => ret.y # DesktopPosition.y
        /\ (call.text_align = "right" /\ Fits /\ FitsDesktopX)
               => ret.x # DesktopPosition.x
        /\ (call.vertical_align = "bottom" /\ Fits /\ FitsDesktopY)
               => ret.y # DesktopPosition.y

C5_Witness ==
    /\ ret.done /\ call.device_type = "mobile" /\ RW > 0 /\ RH > 0 /\ RH < 63
    /\ call.text_align = "left" /\ call.vertical_align = "top"
    /\ ret.y < DesktopPosition.y

\* C6: on desktop pad_x = max(5, 5% of rw) and pad_y = max(5, 5% of rh): a left
\* aligned text is returned at x1 + pad_x and a top aligned text at y1 + pad_y
\* whatever its size, so at x = 640 in an 800 pixel wide rectangle at x1 = 600.
C6_DesktopPaddingFivePercent ==
    (ret.done /\ call.device_type = "desktop") =>
        /\ call.text_align = "left" =>
              /\ ret.x = call.x1 * Scale + Max(5 * Scale, 5 * RW)
              /\ (call.x1 = 600 /\ RW = 800) => ret.x = 640 * Scale
        /\ call.vertical_align = "top" =>
              ret.y = call.y1 * Scale + Max(5 * Scale, 5 * RH)

\* the 800 pixel rectangle with a text wider than the rectangle itself
C6_Witness ==
    /\ ret.done /\ call.device_type = "desktop" /\ call.text_align = "left"
    /\ call.x1 = 600 /\ RW = 800 /\ TW > RW
    /\ ret.x = 640 * Scale

\* the same call made with text_align, or vertical_align, center
CenterAlignedPosition ==
    calculate_text_position(call.text, call.bbox, call.x1, call.y1, call.x2, call.y2,
                            "center", "center", call.device_type)

\* C19: for a text_align other than left, center and right the returned x is
\* the one returned for center with all other arguments equal, and for a
\* vertical_align other than top, center and bottom the returned y is the one
\* returned for center.
C19_UnknownAlignmentIsCenter ==
    ret.done =>
        /\ call.text_align \notin {"left", "center", "right"} =>
              ret.x = CenterAlignedPosition.x
        /\ call.vertical_align \notin {"top", "center", "bottom"} =>
              ret.y = CenterAlignedPosition.y

\* an unrecognised alignment on both axes, with room around the centred text
C19_Witness ==
    /\ ret.done
    /\ call.text_align = "justify" /\ call.vertical_align = "middle"
    /\ RW > 0 /\ RH > 0 /\ FitsStrictly
    /\ ret.x = FloorCenterX /\ ret.x > call.x1 * Scale + PX

\* the bounds of the clamp and the value of the alignment formula, per axis
LoX == call.x1 * Scale + PX
HiX == call.x2 * Scale - TW * Scale - PX
LoY == call.y1 * Scale + PY
HiY == call.y2 * Scale - TH * Scale - PY
FormulaX ==
    IF call.text_align = "left" THEN LoX
    ELSE IF call.text_align = "right" THEN HiX
    ELSE FloorCenterX
FormulaY ==
    IF call.vertical_align = "top" THEN LoY
    ELSE IF call.vertical_align = "bottom" THEN HiY
    ELSE FloorCenterY
NoFitX == TW * Scale > RW * Scale - 2 * PX
NoFitY == TH * Scale > RH * Scale - 2 * PY

\* C24, as claimed: on each axis the returned value is the value of the
\* alignment formula whenever that value lies within [lo, hi], and it differs
\* from the formula value only when the text does not fit the padded rectangle.
C24_FormulaUnlessNoFit ==
    ret.done =>
        /\ (LoX <= FormulaX /\ FormulaX <= HiX) => ret.x = FormulaX
        /\ (LoY <= FormulaY /\ FormulaY <= HiY) => ret.y = FormulaY
        /\ ret.x # FormulaX => NoFitX
        /\ ret.y # FormulaY => NoFitY

\* C24, amended: the returned value is the formula value whenever that value
\* lies within [lo, hi]; it differs from it only when the text does not fit
\* the padded rectangle, or when the text fits, the alignment is not a border
\* alignment and the floored centre lies below the fractional padding bound:
\* then lo is returned, at most half a pixel above the formula value.
C24_FormulaUnlessNoFitOrCentreBelowPadding ==
    ret.done =>
        /\ (LoX <= FormulaX /\ FormulaX <= HiX) => ret.x = FormulaX
        /\ (LoY <= FormulaY /\ FormulaY <= HiY) => ret.y = FormulaY
        /\ (ret.x # FormulaX /\ ~NoFitX) =>
              /\ call.text_align \notin {"left", "right"}
              /\ ret.x = LoX /\ FormulaX < LoX /\ 2 * (LoX - FormulaX) <= Scale
        /\ (ret.y # FormulaY /\ ~NoFitY) =>
              /\ call.vertical_align \notin {"top", "bottom"}
              /\ ret.y = LoY /\ FormulaY < LoY /\ 2 * (LoY - FormulaY) <= Scale

\* a top aligned text returned at its formula value, and a centred text that
\* fits returned above its formula value
C24_Witness ==
    /\ ret.done /\ ~NoFitX /\ ~NoFitY
    /\ call.vertical_align = "top" /\ ret.y = FormulaY /\ LoY < HiY
    /\ call.text_align = "center" /\ ret.x # FormulaX

\* C25: a text wider than the padded rectangle is returned at x = x1 + pad_x
\* for every text_align, and a text taller than it at y = y1 + pad_y for every
\* vertical_align, so that it runs over the right or bottom padding bound only.
C25_NoFitCollapsesToLowerBound ==
    ret.done =>
        /\ NoFitX => (ret.x = LoX /\ ret.x + TW * Scale + PX > call.x2 * Scale)
        /\ NoFitY => (ret.y = LoY /\ ret.y + TH * Scale + PY > call.y2 * Scale)

\* a right and bottom aligned text larger than the rectangle itself
C25_Witness ==
    /\ ret.done /\ RW > 0 /\ RH > 0 /\ TW > RW /\ TH > RH
    /\ call.text_align = "right" /\ call.vertical_align = "bottom"
    /\ ret.x = LoX /\ ret.y = LoY
    /\ FormulaX < call.x1 * Scale

\* C28: on each axis the routine returns max(lo, min(f, hi)) with f the
\* alignment formula value (centre for an unrecognised alignment), so that
\* x >= x1 + pad_x and y >= y1 + pad_y for every input.
C28_SingleClamp ==
    ret.done =>
        /\ ret.x = Max(LoX, Min(FormulaX, HiX))
        /\ ret.y = Max(LoY, Min(FormulaY, HiY))
        /\ ret.x >= LoX /\ ret.y >= LoY

\* a right aligned text that does not fit: the re-assertion pass puts it back
\* at hi, left of lo, and the last clamp returns lo
C28_Witness ==
    /\ ret.done /\ call.text_align = "right" /\ NoFitX
    /\ HiX < LoX /\ ret.x = LoX
    /\ call.vertical_align = "middle" /\ ~NoFitY /\ ret.y = FloorCenterY

-----------------------------------------------------------------------------
(* Properties of generate_certificate (Spec)                               *)

TextFields == {"student_name", "date", "certificate_no"}

\* every operation writes last, so while last is a generate_certificate
\* outcome the template it read is still the stored one
Generated == last.op = "generate_certificate"
UsedTemplate == lookup_template(last.args.template_id)
UsedPlaceholder(field) == first_placeholder(UsedTemplate.placeholders, field)
Events(kind) == {i \in 1..Len(last.effects) : last.effects[i].kind = kind}
Composed == Generated /\ Events("image") # {}
OpenedImage == last.effects[CHOOSE i \in Events("image") : TRUE]

\* all four corners given and x2 <= x1 or y2 <= y1
ZeroAreaRect(ph) ==
    /\ ph # None
    /\ ph[1].x1 # None /\ ph[1].y1 # None /\ ph[1].x2 # None /\ ph[1].y2 # None
    /\ ph[1].x2[1] <= ph[1].x1[1] \/ ph[1].y2[1] <= ph[1].y1[1]

\* C7: a generate_certificate call on a template in which the placeholder of
\* student_name, date or certificate_no has a zero-area or inverted rectangle
\* fails, and draws no text, uploads no file and stores no record.
C7_ZeroAreaRectangleRejected ==
    (Generated /\ \E f \in TextFields : ZeroAreaRect(UsedPlaceholder(f))) =>
        /\ ~last.ok
        /\ Events("text") = {}
        /\ Events("upload") = {}
        /\ Events("insert") = {}

\* C8: when the template image cannot be opened, generate_certificate raises
\* ValueError whatever the cause, before resolving a font, drawing text or the
\* QR image, uploading a file or inserting a record.
C8_ImageFailureIsValueError ==
    (Generated /\ last.stage = "image") =>
        /\ ~last.ok
        /\ last.error = "ValueError"
        /\ last.effects = <<>>

\* no placeholder of that key, or one that lacks a rectangle corner
LacksRectangle(ph) ==
    \/ ph = None
    \/ ph[1].x1 = None \/ ph[1].y1 = None \/ ph[1].x2 = None \/ ph[1].y2 = None

\* size of the text box of a fallback draw: the measured one, or the one the
\* fixed offsets of the except branches stand for
FallbackBox(field) ==
    IF OpenedImage.bbox.ok
    THEN [w |-> OpenedImage.bbox.x2 - OpenedImage.bbox.x1,
          h |-> OpenedImage.bbox.y2 - OpenedImage.bbox.y1]
    ELSE IF field = "student_name" THEN [w |-> 200, h |-> 40]
    ELSE [w |-> 100, h |-> 20]

AtFallbackOrigin(e) ==
    LET W == OpenedImage.width
        H == OpenedImage.height
        b == FallbackBox(e.field)
    IN  /\ e.mode = "fallback"
        /\ e.field = "student_name" =>
              /\ Abs(2 * e.x + b.w * Scale - W * Scale) <= 2 * Scale
              /\ Abs(2 * e.y + b.h * Scale - (H - 100) * Scale) <= 2 * Scale
        /\ e.field = "date" =>
              /\ e.x = 50 * Scale
              /\ Abs(2 * e.y + b.h * Scale - 2 * (H - 100) * Scale) <= Scale
        /\ e.field = "certificate_no" =>
              /\ e.x + b.w * Scale = (W - 200) * Scale
              /\ Abs(2 * e.y + b.h * Scale - 2 * (H - 50) * Scale) <= Scale

\* C9: once the image is open, a field whose placeholder is absent or lacks one
\* of x1, y1, x2, y2 does not make generate_certificate fail and is drawn at
\* the fallback origin computed from the width and height of the image.
C9_MissingCornersFallBack ==
    (Composed /\ \E f \in TextFields : LacksRectangle(UsedPlaceholder(f))) =>
        /\ last.stage # "text"
        /\ \A f \in TextFields : LacksRectangle(UsedPlaceholder(f)) =>
              \E i \in Events("text") :
                  last.effects[i].field = f /\ AtFallbackOrigin(last.effects[i])

\* C10: the identifier of a generate_certificate call is one value: the text
\* drawn for certificate_no, the <id> of the QR payload base_url/verify/<id>,
\* the names <id>.png of the uploaded files and the certificate_id of the
\* inserted and of the returned record all carry it, and it is drawn, encoded
\* and inserted at most once.
C10_OneIdentifierPerCall ==
    Generated =>
        \A i \in Events("text") : last.effects[i].field = "certificate_no" =>
            LET id == last.effects[i].text
            IN  /\ \A j \in Events("text") :
                      last.effects[j].field = "certificate_no" => j = i
                /\ \A j \in Events("qr") :
                      last.effects[j].payload = BaseUrl \o "/verify/" \o id
                /\ \A j \in Events("upload") : last.effects[j].name = id \o ".png"
                /\ \A j \in Events("insert") : last.effects[j].doc.certificate_id = id
                /\ last.ok =>
                      /\ last.result = <<student_details[Len(student_details)]>>
                      /\ last.result[1].certificate_id = id
                      /\ Cardinality(Events("qr")) = 1
                      /\ Cardinality(Events("upload")) = 2
                      /\ Cardinality(Events("insert")) = 1

\* a call that went through: text in a rectangle, QR, two uploads, one record
C10_Witness ==
    /\ Generated /\ last.ok
    /\ \E i \in Events("text") :
          /\ last.effects[i].field = "certificate_no"
          /\ last.effects[i].mode = "rect"
          /\ last.effects[i].text = "TBS-20261101-ZZZZZ9"
    /\ Events("qr") # {} /\ Events("upload") # {} /\ Events("insert") # {}

\* the qr_code placeholders of the template that have x1 set, by position
QrWithX1 ==
    {i \in 1..Len(UsedTemplate.placeholders) :
        /\ UsedTemplate.placeholders[i].key = "qr_code"
        /\ UsedTemplate.placeholders[i].x1 # None}
FirstQrWithX1 == UsedTemplate.placeholders[CHOOSE i \in QrWithX1 : \A j \in QrWithX1 : i <= j]

\* the three text fields are drawn: the call has come to the QR step
TextDrawn == Composed /\ last.stage # "text"

\* C15: the 150 x 150 QR image is pasted once, with its top-left corner at
\* (x1, y1) of the first qr_code placeholder that has x1 set, and at
\* (W - 150 - 50, H - 150 - 50) when there is no such placeholder.
C15_QrAtPlaceholderCorner ==
    TextDrawn =>
        /\ Cardinality(Events("qr")) = 1
        /\ \A i \in Events("qr") :
              /\ last.effects[i].size = 150
              /\ IF QrWithX1 # {}
                 THEN /\ Some(last.effects[i].x) = FirstQrWithX1.x1
                      /\ Some(last.effects[i].y) = FirstQrWithX1.y1
                 ELSE /\ last.effects[i].x = OpenedImage.width - 150 - 50
                      /\ last.effects[i].y = OpenedImage.height - 150 - 50

\* the multiplier of the claim, in percent
ClaimedMultiplier(device_type) ==
    IF device_type = "desktop" THEN 100 ELSE IF device_type = "mobile" THEN 120 ELSE 105

\* C16: the font of a field whose placeholder has rectangle corners is resolved
\* at round(base_font_size * device_multiplier), the nearest integer, with
\* multiplier 1.0 on desktop, 1.2 on mobile and 1.05 otherwise: 58 for base 48
\* on mobile.
C16_FontSizeRounded ==
    Generated =>
        \A i \in Events("font") :
            LET e == last.effects[i]
                base == UsedPlaceholder(e.field)[1].font_size
                mult == ClaimedMultiplier(last.args.device_type)
            IN  e.field \in TextFields =>
                    /\ Abs(2 * (e.size * 100 - base * mult)) <= 100
                    /\ (base = 48 /\ last.args.device_type = "mobile") => e.size = 58

\* all four corners of the placeholder of the field are given
HasRectangle(field) == ~LacksRectangle(UsedPlaceholder(field))

\* positions in font_paths of the files that open at a size
Loading(size) ==
    {k \in 1..Len(font_paths) : font_paths[k] \in OpenedImage.fonts /\ size > 0}

\* C17: resolving the font of a placeholder never makes the call fail and
\* always yields a font: the first candidate of the list that loads at the
\* requested size, after which no further candidate is tried, and the built-in
\* default font carrying requested_size when no candidate loads.
C17_FontAlwaysResolved ==
    Composed =>
        /\ \A f \in TextFields : (TextDrawn /\ HasRectangle(f)) =>
              Cardinality({i \in Events("font") : last.effects[i].field = f}) = 1
        /\ \A i \in Events("font") :
              LET e == last.effects[i]
                  first == CHOOSE k \in Loading(e.size) : \A j \in Loading(e.size) : k <= j
              IN  e.field \in TextFields =>
                      IF Loading(e.size) = {}
                      THEN /\ e.path = "default"
                           /\ e.requested_size = Some(e.size)
                           /\ e.tried = Len(font_paths)
                      ELSE /\ e.path = font_paths[first]
                           /\ e.tried = first

\* arial.ttf, the third candidate, is used although two later ones load too
C17_Witness ==
    /\ TextDrawn /\ HasRectangle("student_name")
    /\ "/usr/share/fonts/truetype/dejavu/DejaVuSans.ttf" \in OpenedImage.fonts
    /\ \E i \in Events("font") :
          /\ last.effects[i].field = "student_name"
          /\ last.effects[i].path = "arial.ttf"
          /\ last.effects[i].tried = 3

\* a hex RGB string: '#' and six hex digits
WellFormedColor(color) ==
    /\ color.hash
    /\ Len(color.rest) = 6
    /\ \A i \in 1..Len(color.rest) : SubSeq(color.rest, i, i) \in HexDigits

\* C18: when the colour of the placeholder of a field is not a well-formed hex
\* RGB string, the call does not fail at that field and draws its text in the
\* default colour #0b2a4a.
C18_MalformedColorDefaults ==
    Composed =>
        \A f \in TextFields :
            (HasRectangle(f) /\ ~WellFormedColor(UsedPlaceholder(f)[1].color)
                /\ \E i \in Events("font") : last.effects[i].field = f) =>
                    \E i \in Events("text") :
                        /\ last.effects[i].field = f
                        /\ last.effects[i].color = DefaultColor

\* a step of generate_certificate, and the documents its insert_one was given
\* device_type strings for which the service has no profile
UnknownDevices == {"tablet", "kiosk", "", "Desktop"}
UnknownDevice == last.args.device_type \notin {"desktop", "mobile"}

\* the drawn text events of fields placed in their rectangle
RectTexts == {i \in Events("text") : last.effects[i].mode = "rect"}

\* C20: a composition whose device_type is neither desktop nor mobile uses
\* padding max(6, 6% of rw) by max(4, 8% of rh) and font multiplier 1.05, so
\* that its text origins and font sizes are those of the same composition
\* with any other unrecognised device_type string.
C20_UnknownDeviceProfile ==
    (Generated /\ UnknownDevice) =>
        /\ \A i \in Events("font") :
              LET e == last.effects[i]
              IN  e.field \in TextFields =>
                      /\ e.size = (UsedPlaceholder(e.field)[1].font_size * 105) \div 100
                      /\ \A d \in UnknownDevices :
                            e.size = scaled_font_size(UsedPlaceholder(e.field)[1].font_size, d)
        /\ \A i \in RectTexts :
              LET e  == last.effects[i]
                  ph == UsedPlaceholder(e.field)[1]
                  rw == ph.x2[1] - ph.x1[1]
                  rh == ph.y2[1] - ph.y1[1]
                  size == text_size(e.text, OpenedImage.bbox)
              IN  /\ e.x = final_x(ph.text_align, ph.x1[1], ph.x2[1], size.w,
                                   Max(6 * Scale, rw * 6))
                  /\ e.y = final_y(ph.vertical_align, ph.y1[1], ph.y2[1], size.h,
                                   Max(4 * Scale, rh * 8))
                  /\ \A d \in UnknownDevices :
                        LET pos == calculate_text_position(e.text, OpenedImage.bbox,
                                       ph.x1[1], ph.y1[1], ph.x2[1], ph.y2[1],
                                       ph.text_align, ph.vertical_align, d)
                        IN  e.x = pos.x /\ e.y = pos.y

\* a kiosk composition returned with a field drawn at 1.05 times its base
\* size, at an origin the desktop profile would not have given
C20_Witness ==
    /\ Generated /\ last.ok /\ last.args.device_type = "kiosk"
    /\ \E i \in RectTexts :
          LET e  == last.effects[i]
              ph == UsedPlaceholder(e.field)[1]
              desktop == calculate_text_position(e.text, OpenedImage.bbox,
                             ph.x1[1], ph.y1[1], ph.x2[1], ph.y2[1],
                             ph.text_align, ph.vertical_align, "desktop")
          IN  /\ e.size > ph.font_size
              /\ e.x # desktop.x \/ e.y # desktop.y

\* the roles the compositor looks up, and the template's placeholders without
\* those of any other key and without all but the first of each role
Roles == TextFields \cup {"qr_code"}
KeptPositions ==
    {i \in 1..Len(UsedTemplate.placeholders) :
        /\ UsedTemplate.placeholders[i].key \in Roles
        /\ \A j \in 1..(i - 1) :
              UsedTemplate.placeholders[j].key # UsedTemplate.placeholders[i].key}
ReducedPlaceholders ==
    [n \in 1..Cardinality(KeptPositions) |->
        UsedTemplate.placeholders[
            CHOOSE i \in KeptPositions : Cardinality({j \in KeptPositions : j <= i}) = n]]

\* the text event render_field gives for a field on an image of some size
Rendered(e, ph, img_width, img_height) ==
    LET r == render_field(e.field, ph, e.text, img_width, img_height,
                          last.args.device_type, OpenedImage.bbox, OpenedImage.fonts)
    IN  r.ok /\ \E k \in 1..Len(r.events) : r.events[k] = e

StoredOf(folder) ==
    last.effects[CHOOSE i \in Events("upload") : last.effects[i].folder = folder].stored

\* C26: each role is served by the first placeholder with its key: the text
\* events, the QR position and the stored record are those of the template
\* reduced to the first placeholder of each role, whatever placeholders of
\* other keys and later duplicates it holds.
C26_FirstPlaceholderOfRole ==
    Composed =>
        /\ \A i \in Events("text") :
              Rendered(last.effects[i],
                       first_placeholder(ReducedPlaceholders, last.effects[i].field),
                       OpenedImage.width, OpenedImage.height)
        /\ \A i \in Events("qr") :
              LET qr == first_placeholder(ReducedPlaceholders, "qr_code")
              IN  IF has_rect(qr)
                  THEN /\ last.effects[i].x = qr[1].x1[1]
                       /\ last.effects[i].y = qr[1].y1[1]
                  ELSE /\ last.effects[i].x = OpenedImage.width - QrSize - 50
                       /\ last.effects[i].y = OpenedImage.height - QrSize - 50
        /\ last.ok =>
              last.result[1] =
                  student_data(last.result[1].certificate_id, last.args.template_id,
                               last.args.student_name, last.args.course_name,
                               last.args.date_str, last.args.student_email,
                               StoredOf("certificates"), StoredOf("qr"))

\* a composition on the template with every role given twice
C26_Witness ==
    /\ Generated /\ last.ok
    /\ UsedTemplate.placeholders = DuplicatePlaceholders
    /\ Len(ReducedPlaceholders) = 4
    /\ \E i \in RectTexts :
          /\ last.effects[i].field = "date"
          /\ last.effects[i].y >= 800 * Scale
    /\ \E i \in Events("qr") : last.effects[i].x = 1800 /\ last.effects[i].y = 1200

\* pixel sizes of template images
ImageSizes == {<<2000, 1414>>, <<1000, 707>>, <<4000, 2828>>}

\* the QR event of the same composition on an image of another size
QrOnImageOf(size) ==
    LET certificate_no ==
            last.effects[CHOOSE i \in Events("text") :
                             last.effects[i].field = "certificate_no"].text
        out == finish_certificate(<<>>, certificate_no, last.args.template_id,
                                  UsedTemplate.placeholders, last.args.student_name,
                                  last.args.course_name, last.args.date_str,
                                  last.args.student_email, size[1], size[2],
                                  [cert_upload |-> "drive", qr_upload |-> "drive",
                                   smtp |-> "sent"],
                                  [unique |-> FALSE, docs |-> <<>>])
    IN  out.effects[1]

\* C27: the corners of a placeholder are pixels of the image whatever its
\* size: a field drawn in its rectangle has the origin it has on an image of
\* any other size, and so has the QR image of a qr_code placeholder with
\* corners.
C27_RawPixelCoordinates ==
    Composed =>
        \A size \in ImageSizes :
            /\ \A i \in RectTexts :
                  Rendered(last.effects[i], UsedPlaceholder(last.effects[i].field),
                           size[1], size[2])
            /\ \A i \in Events("qr") :
                  has_rect(UsedPlaceholder("qr_code")) =>
                      last.effects[i] = QrOnImageOf(size)

\* a composition on the 1000 x 707 image with the name in its rectangle and
\* the QR image at its placeholder
C27_Witness ==
    /\ Generated /\ last.ok
    /\ OpenedImage.width = 1000 /\ OpenedImage.height = 707
    /\ \E i \in RectTexts :
          /\ last.effects[i].field = "student_name"
          /\ last.effects[i].x > 707 * Scale
    /\ \E i \in Events("qr") : last.effects[i].x = 1800 /\ last.effects[i].y = 1300

GenerateStep == last'.op = "generate_certificate"
EmailFailed(outcome) ==
    \E i \in 1..Len(outcome.effects) :
        outcome.effects[i].kind = "email" /\ outcome.effects[i].outcome = "failed"

\* C13: a generate_certificate call that returns has appended exactly one
\* document, the returned one, with verified = true and revoked = false, to
\* student_details; a call that raises, whatever the cause, has left
\* student_details as it was; and a call whose email send failed still returns.
C13_OneRecordPerSuccessfulCall ==
    [][GenerateStep =>
          /\ last'.ok =>
                /\ student_details' = Append(student_details, last'.result[1])
                /\ last'.result[1].verified /\ ~last'.result[1].revoked
          /\ ~last'.ok => student_details' = student_details
          /\ ~last'.ok => last'.stage \in {"service", "template", "image", "text", "qr",
                                            "upload", "insert"}
          /\ EmailFailed(last') => last'.ok]_vars

\* a call that returned its record although the send failed
C13_Witness ==
    /\ Generated /\ last.ok /\ EmailFailed(last)
    /\ student_details = <<last.result[1]>>
    /\ last.result[1].student_email = "bob@example.com"

-----------------------------------------------------------------------------
(* Properties of generate_certificate_id (IdSpec)                          *)

DecimalDigits == {"0", "1", "2", "3", "4", "5", "6", "7", "8", "9"}
UpperCaseLetters ==
    {"A", "B", "C", "D", "E", "F", "G", "H", "I", "J", "K", "L", "M",
     "N", "O", "P", "Q", "R", "S", "T", "U", "V", "W", "X", "Y", "Z"}
CharAt(str, i) == SubSeq(str, i, i)

\* the number written by the decimal digits str[from..to]
NumberAt(str, from, to) ==
    LET value(c) == CHOOSE v \in 0..9 : DigitChars[v + 1] = c
        RECURSIVE number(_)
        number(i) == IF i < from THEN 0 ELSE number(i - 1) * 10 + value(CharAt(str, i))
    IN  number(to)

\* ^TBS-\d{8}-[A-Z0-9]{6}$
MatchesIdFormat(id) ==
    /\ Len(id) = 19
    /\ SubSeq(id, 1, 4) = "TBS-"
    /\ \A i \in 5..12 : CharAt(id, i) \in DecimalDigits
    /\ CharAt(id, 13) = "-"
    /\ \A i \in 14..19 : CharAt(id, i) \in UpperCaseLetters \cup DecimalDigits

\* C11: every value returned by generate_certificate_id is "TBS-", eight decimal
\* digits that read as the year, month and day of the clock, "-", and exactly
\* six characters of A-Z and 0-9.
C11_IdentifierFormat ==
    ret.done =>
        /\ MatchesIdFormat(ret.id)
        /\ NumberAt(ret.id, 5, 8) = call.now.year
        /\ NumberAt(ret.id, 9, 10) = call.now.month
        /\ NumberAt(ret.id, 11, 12) = call.now.day

\* a one-digit month and day, draws from both ends of the letters and the digits
C11_Witness ==
    /\ ret.done
    /\ call.now.month = 9 /\ call.now.day = 1
    /\ call.picks = <<1, 26, 27, 36, 1, 36>>
    /\ ret.id = "TBS-20250901-AZ09A9"

-----------------------------------------------------------------------------
(* Properties of the record store (StoreSpec)                              *)

\* C12: after any sequence of generate_certificate calls, also when the
\* generator returns an identifier that was already issued, no two documents of
\* student_details have the same certificate_id.
C12_StoredIdentifiersUnique ==
    \A i, j \in 1..Len(student_details) :
        student_details[i].certificate_id = student_details[j].certificate_id => i = j

\* a stored document without its revocation fields
Unrevoked(doc) ==
    [doc EXCEPT !.verified = TRUE, !.revoked = FALSE, !.revoked_reason = None,
                !.revoked_at = None]

ReadsBack(certificate, student_name, course_name, date_str) ==
    /\ certificate # None
    /\ certificate[1].student_name = student_name
    /\ certificate[1].course_name = course_name
    /\ certificate[1].date_of_registration = date_str

\* C22: once generate_certificate has returned identifier c, get_certificate(c)
\* returns a record with the student_name, course_name and date given to that
\* call, for as long as the record is stored, and the verification of c
\* reports success while that record is not revoked.
C22_ReturnedIdentifierReadsBack ==
    /\ (Generated /\ last.ok) =>
          /\ ReadsBack(get_certificate(last.result[1].certificate_id),
                       last.args.student_name, last.args.course_name, last.args.date_str)
          /\ verification_result(get_certificate(last.result[1].certificate_id))
                = "success"
    /\ \A k \in 1..Len(student_details) :
          LET doc == student_details[k]
          IN  /\ ReadsBack(get_certificate(doc.certificate_id), doc.student_name,
                           doc.course_name, doc.date_of_registration)
              /\ ~doc.revoked =>
                    verification_result(get_certificate(doc.certificate_id)) = "success"

RevokeStep == last'.op = "revoke_certificate"
VerifyStep == last'.op = "verify_certificate"

\* C23: revoke_certificate of a stored identifier returns and sets revoked =
\* true and verified = false on its record; of an identifier without record
\* it raises Certificate not found and changes nothing; a verification of an
\* identifier that has a revoked record reports revoked; and no step takes
\* revoked back to false on a record that stays stored.
C23_RevocationIsPermanent ==
    [][/\ RevokeStep =>
             LET k == first_match(student_details, last'.args.certificate_id)
             IN  IF k = 0
                 THEN /\ ~last'.ok /\ last'.msg = "Certificate not found"
                      /\ UNCHANGED <<student_details, storeVars, templates>>
                 ELSE /\ last'.ok
                      /\ student_details'[k].revoked /\ ~student_details'[k].verified
                      /\ Unrevoked(student_details'[k]) = Unrevoked(student_details[k])
                      /\ \A i \in 1..Len(student_details) :
                            i # k => student_details'[i] = student_details[i]
       /\ VerifyStep =>
             \A k \in 1..Len(student_details) :
                 (/\ student_details[k].certificate_id = last'.args.certificate_id
                  /\ student_details[k].revoked) =>
                     /\ last'.result[1].page = "revoked"
                     /\ verification_logs'[Len(verification_logs')].verification_result
                           = "revoked"
       /\ last'.op # "delete_certificate" =>
             \A i \in 1..Len(student_details) :
                 student_details[i].revoked => student_details'[i].revoked]_vars

\* a verification of a revoked certificate, made after an attempt to revoke an
\* identifier that has no record
C23_Witness ==
    /\ last.op = "verify_certificate"
    /\ last.result[1].page = "revoked"
    /\ Len(student_details) = 2
    /\ student_details[2].revoked /\ ~student_details[2].verified
    /\ ~student_details[1].revoked

\* C29: GET /api/certificates/{certificate_id} answers with status 404 when
\* student_details has no record with that identifier, and with the stored
\* record when it has one.
C29_UnknownIdentifierIs404 ==
    last.op = "get_certificate" =>
        IF get_certificate(last.args.certificate_id) = None
        THEN ~last.ok /\ last.error = "HTTPException" /\ last.msg = "404"
        ELSE last.ok /\ last.result = get_certificate(last.args.certificate_id)

\* C30: every verification has put one document with its result into
\* verification_logs, and the analytics endpoints report those documents:
\* total_verifications is their number, successful and failed are the numbers
\* of success and failed results, and the logs are the documents.
C30_AnalyticsReportVerifications ==
    /\ last.op = "verify_certificate" =>
          /\ verification_logs # <<>>
          /\ verification_logs[Len(verification_logs)].certificate_id
                = last.args.certificate_id
          /\ verification_logs[Len(verification_logs)].verification_result
                = verification_result(get_certificate(last.args.certificate_id))
    /\ last.op = "get_verification_stats" =>
          /\ last.result[1].total_verifications = Len(verification_logs)
          /\ last.result[1].successful_verifications
                = count_documents(verification_logs, "success")
          /\ last.result[1].failed_verifications
                = count_documents(verification_logs, "failed")
    /\ last.op = "get_verification_logs" =>
          /\ last.result[1].logs = verification_logs
          /\ last.result[1].total = Len(verification_logs)

-----------------------------------------------------------------------------
(* Properties of concurrent calls (ConcurrentSpec)                         *)

\* the outcome of the call of task t had it run with no other call: on the
\* template it read and a collection no other call has inserted into
Alone(t) == task_outcome(t, <<>>)

Returned(t) == tasks[t].pc = "done" /\ tasks[t].outcome.ok

TextEventsOf(effects) == SelectSeq(effects, LAMBDA e : e.kind \in {"image", "text", "qr"})

\* C21: in every interleaving of two generate_certificate calls, the record a
\* call returns and the one it stored, its image and the positions it drew at
\* are those of the same call run alone, and student_details holds exactly
\* the records the calls stored.
C21_ConcurrentCallsIndependent ==
    /\ \A t \in Tasks :
          Returned(t) =>
              /\ tasks[t].outcome.result = Alone(t).result
              /\ TextEventsOf(tasks[t].outcome.effects) = TextEventsOf(Alone(t).effects)
              /\ inserted(tasks[t].outcome.effects) = Alone(t).result
              /\ \E k \in 1..Len(student_details) :
                    student_details[k] = Alone(t).result[1]
    /\ Len(student_details) =
          Cardinality({t \in Tasks : inserted(tasks[t].outcome.effects) # <<>>})

\* both calls have returned, for different students, the second having
\* inserted while the first awaited its email thread
C21_Witness ==
    /\ Returned(1) /\ Returned(2)
    /\ tasks[1].args.student_name = "Bob" /\ tasks[2].args.student_name = "Alice Johnson"
    /\ tasks[1].template.placeholders = LegacyPlaceholders
    /\ tasks[2].template.placeholders = RectPlaceholders
    /\ Len(student_details) = 2
    /\ student_details[1].student_name = "Bob"
    /\ student_details[2].student_name = "Alice Johnson"

=============================================================================
